---- MODULE Spec2Model ----
(***************************************************************************)
(* A model of the strategy-compilation pipeline and of the vectorized      *)
(* backtester of factorforge-backtester:                                   *)
(*   engine/strategy_factory.py  _safe_compile_boolean_expression,         *)
(*                               StrategyFactory.generate_targets          *)
(*   engine/backtester.py        backtest_from_weights                     *)
(*   data/snapshot_store.py      save_snapshot, load_snapshot              *)
(* Each component is a specification of its own (SpecValidate, SpecSize,   *)
(* SpecBT, SpecTargets, SpecSnapshot, and SpecPipeline for the two engine  *)
(* calls in sequence) over the shared variables; the variables of the      *)
(* components a specification does not run stay at their idle values.      *)
(***************************************************************************)
EXTENDS Integers, Sequences, FiniteSets, TLC

VARIABLES
  \* _safe_compile_boolean_expression: its arguments and what it returned or raised
  v_pc, v_expr, v_allowed, v_result,
  \* the selection and sizing loop of generate_targets: signal, top_n, weights
  s_pc, s_signal, s_top_n, s_weights,
  \* backtest_from_weights: its arguments, its intermediate series, what it
  \* returned, and whether it left a plot behind
  b_pc, b_price, b_weights, b_wcols, b_execution, b_cost, b_plot, b_locals,
  b_result, b_plotted

v_vars == <<v_pc, v_expr, v_allowed, v_result>>

s_vars == <<s_pc, s_signal, s_top_n, s_weights>>

b_vars ==
  <<b_pc, b_price, b_weights, b_wcols, b_execution, b_cost, b_plot, b_locals,
    b_result, b_plotted>>

VARIABLES g_pc, g_config, g_ind, g_computed, g_calls, g_validation, g_evals,
          g_signal, g_result

g_vars == <<g_pc, g_config, g_ind, g_computed, g_calls, g_validation, g_evals,
            g_signal, g_result>>

VARIABLES
  \* the snapshot store: the files of data/snapshots and the calls made so far
  n_files, n_calls,
  \* a caller that runs generate_targets and then backtest_from_weights, twice:
  \* its next step, the matrices it holds by identity, the installed
  \* libraries, its arguments to the backtest and what each run gave
  p_pc, p_heap, p_env, p_call, p_runs

n_vars == <<n_files, n_calls>>

p_vars == <<p_pc, p_heap, p_env, p_call, p_runs>>

vars == <<v_vars, s_vars, b_vars, g_vars, n_vars, p_vars>>

(***************************************************************************)
(* Numbers.  A float cell is a fraction n/d in lowest terms with d > 0, or *)
(* the missing value NaN (0/0).                                            *)
(***************************************************************************)
NaN == [n |-> 0, d |-> 0]

IsNaN(x) == x.d = 0

Abs(i) == IF i < 0 THEN -i ELSE i

Min(a, b) == IF a <= b THEN a ELSE b

Max(a, b) == IF a >= b THEN a ELSE b

RECURSIVE GCD(_, _)
GCD(a, b) == IF b = 0 THEN a ELSE GCD(b, a % b)

Frac(n, d) ==
  LET g == GCD(Abs(n), Abs(d))
      sg == IF d < 0 THEN -1 ELSE 1
  IN [n |-> sg * (n \div g), d |-> sg * (d \div g)]

Num(i) == [n |-> i, d |-> 1]

Add(x, y) == Frac(x.n * y.d + y.n * x.d, x.d * y.d)

Sub(x, y) == Frac(x.n * y.d - y.n * x.d, x.d * y.d)

Mul(x, y) == Frac(x.n * y.n, x.d * y.d)

Less(x, y) == x.n * y.d < y.n * x.d

AbsF(x) == [n |-> Abs(x.n), d |-> x.d]

\* x / y in float arithmetic: a NaN operand gives NaN, 0/0 gives NaN, and x/0
\* the infinity of x's sign (n/0 with n = 1 or -1).
Div(x, y) ==
  IF IsNaN(x) \/ IsNaN(y) THEN NaN
  ELSE IF y.n = 0 THEN [n |-> IF x.n > 0 THEN 1 ELSE IF x.n < 0 THEN -1 ELSE 0, d |-> 0]
  ELSE Frac(x.n * y.d, x.d * y.n)

\* fillna(0.0) on one cell.
fillna0(x) == IF IsNaN(x) THEN Num(0) ELSE x

RECURSIVE SumFrom(_, _)
\* Series.sum(): the cells of q from position i on, added up.
SumFrom(q, i) == IF i > Len(q) THEN Num(0) ELSE Add(q[i], SumFrom(q, i + 1))

Sum(q) == SumFrom(q, 1)

(***************************************************************************)
(* Idle values of the components a specification does not run.             *)
(***************************************************************************)
SizeIdle == s_pc = "idle" /\ s_signal = <<>> /\ s_top_n = <<>> /\ s_weights = <<>>

NoLocals == [aligned_returns |-> <<>>, turnover |-> <<>>, gross |-> <<>>]

NoResult == [raised |-> "none", net |-> <<>>, full_weights |-> <<>>, metrics |-> <<>>]

BacktestIdle ==
  /\ b_pc = "idle" /\ b_price = <<>> /\ b_weights = <<>> /\ b_wcols = <<>>
  /\ b_execution = ""
  /\ b_cost = Num(0) /\ b_plot = FALSE /\ b_locals = NoLocals /\ b_result = NoResult
  /\ b_plotted = FALSE

(***************************************************************************)
(* Syntax trees, as ast.parse(expr, mode="eval") builds them.  A node is a *)
(* record: its class (type), Name.id, Constant.value (by kind of literal)  *)
(* and its child nodes in the order ast.iter_child_nodes yields them       *)
(* (the order of the class's _fields): operator and context objects are    *)
(* child nodes too, and the validator sees them.                           *)
(***************************************************************************)
Node(t, i, v, a) == [type |-> t, id |-> i, value |-> v, args |-> a]

Leaf(t) == Node(t, "", "", <<>>)

Name(i) == Node("Name", i, "", <<Leaf("Load")>>)

Constant(v) == Node("Constant", "", v, <<>>)

Compare(l, op, r) == Node("Compare", "", "", <<l, Leaf(op), r>>)

BinOp(l, op, r) == Node("BinOp", "", "", <<l, Leaf(op), r>>)

BoolOp(op, l, r) == Node("BoolOp", "", "", <<Leaf(op), l, r>>)

UnaryOp(op, e) == Node("UnaryOp", "", "", <<Leaf(op), e>>)

Call(f, a) == Node("Call", "", "", <<f>> \o a)

Attribute(e) == Node("Attribute", "", "", <<e, Leaf("Load")>>)

Subscript(e, s) == Node("Subscript", "", "", <<e, s, Leaf("Load")>>)

Lambda(e) == Node("Lambda", "", "", <<Leaf("arguments"), e>>)

Expression(e) == Node("Expression", "", "", <<e>>)

\* A text ast.parse cannot parse: it raises SyntaxError and builds no tree.
Unparsable == Node("Unparsable", "", "", <<>>)

NumericValues == {"0", "1"}

OtherValues == {"'a'", "None", "True"}

CmpOps == {"Gt", "Lt", "GtE", "LtE", "Eq", "NotEq"}

OtherCmpOps == {"In", "NotIn", "Is", "IsNot"}

ArithOps == {"Add", "Sub", "Mult", "Div"}

OtherBinOps == {"BitAnd"}

BoolOps == {"And", "Or"}

UnaryOps == {"Not", "USub", "Invert"}

FeatureIds == {"sma3", "sma5"}

\* Identifiers an expression can mention: the feature ids and a foreign name.
Identifiers == FeatureIds \cup {"os"}

Leaves == {Name(i) : i \in Identifiers} \cup {Constant(v) : v \in NumericValues \cup OtherValues}

SmallLeaves == {Name("sma3"), Constant("1")}

\* Every one-level construct with its first operand in L and its second in R.
Composites(L, R) ==
  {Compare(l, op, r) : l \in L, op \in CmpOps \cup OtherCmpOps, r \in R}
    \cup {BinOp(l, op, r) : l \in L, op \in ArithOps \cup OtherBinOps, r \in R}
    \cup {BoolOp(op, l, r) : l \in L, op \in BoolOps, r \in R}
    \cup {UnaryOp(op, l) : op \in UnaryOps, l \in L}
    \cup {Call(l, <<>>) : l \in L}
    \cup {Call(l, <<r>>) : l \in L, r \in R}
    \cup {Attribute(l) : l \in L}
    \cup {Subscript(l, r) : l \in L, r \in R}
    \cup {Lambda(l) : l \in L}

Level1 == Composites(Leaves, Leaves)

Level1Small == Composites(SmallLeaves, SmallLeaves)

Level2 == Composites(Level1Small, SmallLeaves) \cup Composites(SmallLeaves, Level1Small)

\* "sma3 > sma5" and "sma3 - sma5 > 0".
Examples ==
  {Compare(Name("sma3"), "Gt", Name("sma5")),
   Compare(BinOp(Name("sma3"), "Sub", Name("sma5")), "Gt", Constant("0"))}

\* The expression texts validation is run on, as their trees.
ExprSet ==
  {Unparsable} \cup {Expression(e) : e \in Leaves \cup Level1 \cup Level2 \cup Examples}

AllowedSets == SUBSET FeatureIds

NoConfig ==
  [keys |-> {}, features |-> <<>>, sig_type |-> "", expression |-> Unparsable,
   top_n |-> <<>>, ranking_method |-> "", sizing_method |-> ""]

NotRun == [raised |-> "pending", msg |-> "", what |-> ""]

NoTargets == [raised |-> "none", weights |-> <<>>]

TargetsIdle ==
  /\ g_pc = "idle" /\ g_config = NoConfig /\ g_ind = <<>> /\ g_computed = {}
  /\ g_calls = 0 /\ g_validation = NotRun /\ g_evals = 0 /\ g_signal = <<>>
  /\ g_result = NoTargets

SnapshotIdle == n_files = {} /\ n_calls = <<>>

NoEnv == [fill |-> "", ties |-> ""]

NoCall == [execution |-> "", cost |-> Num(0)]

PipelineIdle ==
  p_pc = "idle" /\ p_heap = <<>> /\ p_env = NoEnv /\ p_call = NoCall /\ p_runs = <<>>

(***************************************************************************)
(* _safe_compile_boolean_expression                                        *)
(***************************************************************************)
allowed_nodes ==
  {"Expression", "BoolOp", "UnaryOp", "BinOp", "Compare", "Name", "Load",
   "And", "Or", "Not", "Gt", "Lt", "GtE", "LtE", "Eq", "NotEq",
   "Num", "Constant", "Call"}

Returned == [raised |-> "none", msg |-> "", what |-> ""]

Raise(exc, m, w) == [raised |-> exc, msg |-> m, what |-> w]

RECURSIVE WalkFrom(_)
\* ast.walk: breadth first, a node before its children.
WalkFrom(todo) ==
  IF todo = <<>> THEN <<>>
  ELSE <<Head(todo)>> \o WalkFrom(Tail(todo) \o Head(todo).args)

Walk(node) == WalkFrom(<<node>>)

\* Mutant: the loop without its check for Call nodes.
CheckNode_AcceptsCalls(n, allowed_names) ==
  IF n.type \notin allowed_nodes
    THEN Raise("UnsafeExpressionError", "Disallowed AST node", n.type)
  ELSE IF n.type = "Name" /\ n.id \notin allowed_names
    THEN Raise("UnsafeExpressionError", "Unknown feature name in expression", n.id)
  ELSE Returned

\* The three checks the loop makes on one node, in the code's order.
CheckNode(n, allowed_names) ==
  IF n.type \notin allowed_nodes
    THEN Raise("UnsafeExpressionError", "Disallowed AST node", n.type)
  ELSE IF n.type = "Name" /\ n.id \notin allowed_names
    THEN Raise("UnsafeExpressionError", "Unknown feature name in expression", n.id)
  ELSE IF n.type = "Call"
    THEN Raise("UnsafeExpressionError", "Function calls are not allowed in expressions", "")
  ELSE Returned

RECURSIVE CheckAll(_, _)
\* The loop over ast.walk(node): the first failing node raises.
CheckAll(nodes, allowed_names) ==
  IF nodes = <<>> THEN Returned
  ELSE IF CheckNode(Head(nodes), allowed_names).raised # "none"
    THEN CheckNode(Head(nodes), allowed_names)
  ELSE CheckAll(Tail(nodes), allowed_names)

safe_compile_boolean_expression(expr, allowed_names) ==
  IF expr = Unparsable THEN Raise("SyntaxError", "invalid syntax", "")
  ELSE CheckAll(Walk(expr), allowed_names)

ValidateIdle == v_pc = "idle" /\ v_expr = Unparsable /\ v_allowed = {} /\ v_result = Returned

InitValidate ==
  /\ SizeIdle
  /\ BacktestIdle
  /\ TargetsIdle
  /\ SnapshotIdle
  /\ PipelineIdle
  /\ v_pc = "call"
  /\ v_expr \in ExprSet
  /\ v_allowed \in AllowedSets
  /\ v_result = Returned

Validate ==
  /\ v_pc = "call"
  /\ v_result' = safe_compile_boolean_expression(v_expr, v_allowed)
  /\ v_pc' = "done"
  /\ UNCHANGED <<v_expr, v_allowed>>

NextValidate == Validate /\ UNCHANGED <<s_vars, b_vars, g_vars, n_vars, p_vars>>

SpecValidate == InitValidate /\ [][NextValidate]_vars

(***************************************************************************)
(* Claims about validation                                                 *)
(***************************************************************************)
RECURSIVE Nodes(_)
\* Every node of a tree.
Nodes(e) == {e} \cup UNION {Nodes(e.args[i]) : i \in DOMAIN e.args}

IsUnsafe(r) == r.raised = "UnsafeExpressionError"

\* C1: an expression that contains a function-call node anywhere, or
\* references an identifier that is not in the allowed set, makes validation
\* raise UnsafeExpression, whatever the callee is.
C1_CallOrUnknownNameRejected ==
  (v_pc = "done"
     /\ \E n \in Nodes(v_expr) :
          n.type = "Call" \/ (n.type = "Name" /\ n.id \notin v_allowed))
    => IsUnsafe(v_result)

\* C1 witness: a call whose callee is an allowed identifier was rejected as a call.
C1_Witness ==
  /\ v_pc = "done"
  /\ \E n \in Nodes(v_expr) :
       n.type = "Call" /\ n.args[1].type = "Name" /\ n.args[1].id \in v_allowed
  /\ \A n \in Nodes(v_expr) : n.type = "Name" => n.id \in v_allowed
  /\ IsUnsafe(v_result)
  /\ v_result.msg = "Function calls are not allowed in expressions"

\* The syntax the specification accepts: and/or/not, the six comparisons,
\* arithmetic binary operators, identifiers and numeric literals.
AcceptedSyntax(n) ==
  \/ n.type \in {"Expression", "BoolOp", "And", "Or", "Compare", "BinOp", "Name", "Load"}
  \/ n.type \in CmpOps \cup ArithOps
  \/ n.type = "UnaryOp" /\ n.args[1].type = "Not"
  \/ n.type = "Not"
  \/ n.type = "Constant" /\ n.value \in NumericValues

\* C3 (as claimed): every expression with a syntax node outside the accepted
\* set (a non-numeric literal, an attribute access, a subscript, a lambda,
\* another comparison operator) makes validation raise UnsafeExpression.
C3_UnacceptedSyntaxRejected ==
  (v_pc = "done" /\ v_expr # Unparsable
     /\ \E n \in Nodes(v_expr) : ~AcceptedSyntax(n))
    => IsUnsafe(v_result)

\* C4 (as claimed): validation raises nothing for an expression built only
\* from allowed identifiers, numeric literals, and/or/not, the six
\* comparisons and the arithmetic binary operators + - * /.
C4_AcceptedSyntaxValidates ==
  (v_pc = "done" /\ v_expr # Unparsable
     /\ \A n \in Nodes(v_expr) :
          AcceptedSyntax(n) /\ (n.type = "Name" => n.id \in v_allowed))
    => v_result.raised = "none"

(***************************************************************************)
(* Selection and sizing: the per-date loop of generate_targets.            *)
(* A matrix is a sequence of rows (one per date, in index order), a row a  *)
(* sequence of cells (one per instrument column, in column order).         *)
(***************************************************************************)
MaxCells == 6

MinTopN == 1

MaxTopN == 2

SignalValues == {NaN, Num(0), Num(1), Num(2)}

Shapes == {sh \in (1..MaxCells) \X (1..MaxCells) : sh[1] * sh[2] <= MaxCells}

SignalMatrices == UNION {[1..sh[1] -> [1..sh[2] -> SignalValues]] : sh \in Shapes}

\* ranking.get("top_n"): absent (None) is <<>>, an integer n is <<n>>.
TopNs == {<<>>} \cup {<<n>> : n \in (0 - MinTopN)..MaxTopN}

Range(q) == {q[i] : i \in DOMAIN q}

\* row.dropna(): the columns that hold a value.
dropna(row) == {c \in DOMAIN row : ~IsNaN(row[c])}

RECURSIVE Orders(_, _)
\* valid.sort_values(ascending=False): the columns S by descending value.  The
\* default sort kind is quicksort, which is not stable: columns of equal value
\* come out in an order the library does not fix.
Orders(row, S) ==
  IF S = {} THEN {<<>>}
  ELSE LET top == {i \in S : \A j \in S : ~Less(row[i], row[j])}
       IN UNION {{<<i>> \o o : o \in Orders(row, S \ {i})} : i \in top}

sort_values(row) == Orders(row, dropna(row))

\* Mutant: head takes one row too many.
head_OneMore(q, n) ==
  IF n >= 0 THEN SubSeq(q, 1, Min(n + 1, Len(q)))
  ELSE SubSeq(q, 1, Max(Len(q) + n + 1, 0))

\* Series.head(n): the first n rows, and for a negative n all but the last -n.
head(q, n) ==
  IF n >= 0 THEN SubSeq(q, 1, Min(n, Len(q)))
  ELSE SubSeq(q, 1, Max(Len(q) + n, 0))

\* ranked[ranked > 0]
Positive(row, ranked) ==
  LET IsPos(c) == Less(Num(0), row[c]) IN SelectSeq(ranked, IsPos)

Selected(row, top_n, ranked) ==
  LET positives == Positive(row, ranked)
  IN IF top_n # <<>>
       THEN IF positives # <<>> THEN head(positives, top_n[1]) ELSE <<>>
       ELSE positives

\* Mutant: the weight divides by one more than the number selected.
EqualWeight_OneMore(k) == Frac(1, k + 1)

\* w = 1.0 / float(len(selected)), as a fraction.
EqualWeight(k) == Frac(1, k)

\* One iteration of the loop: the weights row of a date from its signal row.
SizeRow(row, top_n, ranked) ==
  LET selected == Selected(row, top_n, ranked)
  IN [c \in DOMAIN row |->
        IF c \in Range(selected) THEN EqualWeight(Len(selected)) ELSE Num(0)]

RECURSIVE SizeFrom(_, _, _)
\* The loop over signal.index from date d on: every weight matrix it can build.
SizeFrom(signal, top_n, d) ==
  IF d > Len(signal) THEN {<<>>}
  ELSE {<<SizeRow(signal[d], top_n, ranked)>> \o rest :
          ranked \in sort_values(signal[d]), rest \in SizeFrom(signal, top_n, d + 1)}

InitSize ==
  /\ ValidateIdle
  /\ BacktestIdle
  /\ TargetsIdle
  /\ SnapshotIdle
  /\ PipelineIdle
  /\ s_pc = "call"
  /\ s_signal \in SignalMatrices
  /\ s_top_n \in TopNs
  /\ s_weights = <<>>

Size ==
  /\ s_pc = "call"
  /\ s_weights' \in SizeFrom(s_signal, s_top_n, 1)
  /\ s_pc' = "done"
  /\ UNCHANGED <<s_signal, s_top_n>>

NextSize == Size /\ UNCHANGED <<v_vars, b_vars, g_vars, n_vars, p_vars>>

SpecSize == InitSize /\ [][NextSize]_vars

(***************************************************************************)
(* The weights are IEEE 754 doubles: 1.0 / float(k) is the double nearest  *)
(* to 1/k, and a sum of a row adds doubles, rounding each partial sum to   *)
(* nearest, ties to even.  A positive double is m * 2^e with m a sequence  *)
(* of MantissaBits bits, most significant first and leading bit 1; zero    *)
(* has no bits.                                                            *)
(***************************************************************************)
MantissaBits == 53

Zeros(n) == [i \in 1..n |-> 0]

FlZero == [m |-> <<>>, e |-> 0]

FlOne == [m |-> <<1>> \o Zeros(MantissaBits - 1), e |-> 1 - MantissaBits]

\* The carry out of bit i of x + y (two bit sequences of one length): a lower
\* position makes a carry and every position from there to i passes it on.
CarryOut(x, y, i) ==
  \E j \in i..Len(x) :
    /\ x[j] + y[j] = 2
    /\ \A t \in i..(j - 1) : x[t] + y[t] >= 1

\* x + y of two bit sequences of one length: one bit longer.
BitAdd(x, y) ==
  [i \in 1..(Len(x) + 1) |->
     IF i = 1 THEN (IF CarryOut(x, y, 1) THEN 1 ELSE 0)
     ELSE (x[i - 1] + y[i - 1] + (IF CarryOut(x, y, i) THEN 1 ELSE 0)) % 2]

\* A bit sequence without its leading zeros.
Strip(x) ==
  IF \A i \in DOMAIN x : x[i] = 0 THEN <<>>
  ELSE SubSeq(x, CHOOSE i \in DOMAIN x : x[i] = 1 /\ \A j \in 1..(i - 1) : x[j] = 0, Len(x))

\* The bits x (leading bit 1) times 2^e, rounded to MantissaBits bits: the cut-off
\* bits round to nearest, a tie to the even mantissa.
RoundBits(x, e) ==
  IF Len(x) <= MantissaBits
    THEN [m |-> x \o Zeros(MantissaBits - Len(x)), e |-> e - (MantissaBits - Len(x))]
  ELSE LET keep == SubSeq(x, 1, MantissaBits)
           rest == SubSeq(x, MantissaBits + 1, Len(x))
           more == \E i \in 2..Len(rest) : rest[i] = 1
           up == rest[1] = 1 /\ (more \/ keep[MantissaBits] = 1)
           one == Zeros(MantissaBits - 1) \o <<1>>
           sum == Strip(BitAdd(keep, one))
       IN IF ~up THEN [m |-> keep, e |-> e + Len(rest)]
          ELSE [m |-> SubSeq(sum, 1, MantissaBits),
                e |-> e + Len(rest) + (Len(sum) - MantissaBits)]

\* x + y in double arithmetic, for doubles >= 0.
FlAdd(x, y) ==
  IF x.m = <<>> THEN y
  ELSE IF y.m = <<>> THEN x
  ELSE LET e == Min(x.e, y.e)
           xs == x.m \o Zeros(x.e - e)
           ys == y.m \o Zeros(y.e - e)
           len == Max(Len(xs), Len(ys))
           xp == Zeros(len - Len(xs)) \o xs
           yp == Zeros(len - Len(ys)) \o ys
       IN RoundBits(Strip(BitAdd(xp, yp)), e)

\* 2^i mod k for 0 <= i <= 80, without a number beyond 32 bits (k < 2^10).
PowMod(i, k) ==
  LET a == Min(i, 20)
      b == Min(i - a, 20)
      c == Min(i - a - b, 20)
      d == i - a - b - c
  IN ((((((2 ^ a) % k) * ((2 ^ b) % k)) % k) * ((2 ^ c) % k)) % k * ((2 ^ d) % k)) % k

\* Bit i (i >= 1, of weight 2^-i) of the binary expansion of 1/k, for k >= 2.
DivBit(i, k) == IF 2 * PowMod(i - 1, k) >= k THEN 1 ELSE 0

\* 1.0 / float(k): the double nearest to 1/k, for k >= 1.  Two bits past the
\* mantissa and whether anything follows them decide the rounding.
FlInv(k) ==
  IF k = 1 THEN FlOne
  ELSE LET z == (CHOOSE i \in 1..30 : DivBit(i, k) = 1 /\ \A j \in 1..(i - 1) : DivBit(j, k) = 0) - 1
           n == MantissaBits + 2
           x == [i \in 1..n |-> DivBit(z + i, k)]
           sticky == IF PowMod(z + n, k) = 0 THEN <<>> ELSE <<1>>
       IN RoundBits(x \o sticky, 0 - (z + n) - Len(sticky))

\* The double a weight cell holds: 0.0, or 1.0 / float(k) for the cell 1/k.
FlOf(w) == IF w.n = 0 THEN FlZero ELSE FlInv(w.d)

RECURSIVE FlSumFrom(_, _, _)
\* The cells of a row added left to right from column c on, acc so far.
FlSumFrom(row, c, acc) ==
  IF c > Len(row) THEN acc
  ELSE FlSumFrom(row, c + 1, FlAdd(acc, FlOf(row[c])))

\* weights.sum(axis=1) on one row.
RowSum(row) == FlSumFrom(row, 1, FlZero)

(***************************************************************************)
(* Claims about selection and sizing                                       *)
(***************************************************************************)
InUnit(w) == ~IsNaN(w) /\ ~Less(w, Num(0)) /\ ~Less(Num(1), w)

NonZero(row) == {c \in DOMAIN row : row[c] # Num(0)}

\* C5 (as claimed): in every weight matrix generate_targets returns, on every
\* date each weight is in [0, 1] and the row sums to exactly 0 or exactly 1.
C5_RowSumsExactlyZeroOrOne ==
  s_pc = "done" =>
    \A d \in DOMAIN s_weights :
      /\ \A c \in DOMAIN s_weights[d] : InUnit(s_weights[d][c])
      /\ RowSum(s_weights[d]) \in {FlZero, FlOne}

\* C5 (amended): on every date each weight is in [0, 1]; the row is all zero or
\* its k non-zero weights are each the double nearest to 1/k, and the row sums
\* to exactly 0 or exactly 1 whenever k <= 5.
C5_RowSumsOneUpToRounding ==
  s_pc = "done" =>
    \A d \in DOMAIN s_weights :
      LET row == s_weights[d]
          k == Cardinality(NonZero(row))
      IN /\ \A c \in DOMAIN row : InUnit(row[c])
         /\ \A c \in NonZero(row) : row[c] = Frac(1, k)
         /\ k <= 5 => RowSum(row) \in {FlZero, FlOne}

\* C5 witness: a date with three selected instruments, whose row sums to exactly 1.
C5_Witness ==
  /\ s_pc = "done"
  /\ \E d \in DOMAIN s_weights :
       Cardinality(NonZero(s_weights[d])) = 3 /\ RowSum(s_weights[d]) = FlOne

\* The instruments of a date with a non-missing, strictly positive signal.
Positives(row) == {c \in DOMAIN row : ~IsNaN(row[c]) /\ Less(Num(0), row[c])}

\* C6: per date, from that date's signal row alone: with top_n = n (n >= 0) the
\* selected instruments are min(n, P) of the P strictly positive ones, none of
\* them of lower value than a positive one left out; with top_n absent they
\* are exactly the strictly positive ones.  Each selected instrument weighs
\* 1/count, every other 0, and a date with no positive signal is all zero.
C6_SelectionAndEqualWeight ==
  s_pc = "done" =>
    /\ Len(s_weights) = Len(s_signal)
    /\ \A d \in DOMAIN s_weights :
         LET row == s_signal[d]
             w == s_weights[d]
             P == Positives(row)
             sel == NonZero(w)
         IN /\ DOMAIN w = DOMAIN row
            /\ s_top_n = <<>> => sel = P
            /\ (s_top_n # <<>> /\ s_top_n[1] >= 0) =>
                 /\ sel \subseteq P
                 /\ Cardinality(sel) = Min(s_top_n[1], Cardinality(P))
                 /\ \A a \in sel : \A b \in P \ sel : ~Less(row[a], row[b])
            /\ \A c \in sel : w[c] = Frac(1, Cardinality(sel))
            /\ P = {} => sel = {}

\* C6 witness: top_n = 1 on a date with two positive candidates of different
\* value gave the higher one weight 1 and the other 0.
C6_Witness ==
  /\ s_pc = "done"
  /\ s_top_n = <<1>>
  /\ \E d \in DOMAIN s_weights :
       \E a, b \in DOMAIN s_weights[d] :
         /\ Positives(s_signal[d]) = {a, b}
         /\ Less(s_signal[d][b], s_signal[d][a])
         /\ s_weights[d][a] = Num(1)
         /\ s_weights[d][b] = Num(0)

\* Instruments a and b are tied on a date: both are candidates (present and
\* strictly positive) and carry the same signal value.
Tied(row, a, b) == a \in Positives(row) /\ b \in Positives(row) /\ row[a] = row[b]

C27_AtMostTopN ==
  (s_pc = "done" /\ s_top_n # <<>>) =>
    \A d \in DOMAIN s_weights :
      Cardinality(NonZero(s_weights[d])) <= Max(s_top_n[1], 0)

(***************************************************************************)
(* backtest_from_weights.  The price matrix has a row per date; the        *)
(* caller's weights have, per date of the price index, a row or no row     *)
(* (<<>>); both have the same instrument columns.                          *)
(***************************************************************************)
NumDates == 3

PriceValues == {NaN, Num(1), Num(2)}

WeightValues == {Num(0), Frac(1, 2), Num(1)}

\* A row of prices and a row of caller's weights, for 1 and for 2 instruments.
PriceRows(T) == IF T = 1 THEN [1..1 -> PriceValues] ELSE [1..T -> {Num(1), Num(2)}]

WeightRows(T) ==
  IF T = 1 THEN {<<>>} \cup [1..1 -> WeightValues]
  ELSE {<<>>, <<Num(1), Num(0)>>, <<Num(0), Num(1)>>, <<Frac(1, 2), Frac(1, 2)>>}

ColumnCounts == {1, 2}

ExecutionModes == {"next_close", "same_close", "next_open"}

\* transaction_cost_bps, a decimal fraction
CostRates == {Num(0), Frac(1, 4)}

\* DataFrame.pct_change fills missing prices forward before it divides
\* (fill_method "pad", the default of pandas 1 and 2) or does not (None, the
\* default of pandas 3): both are outcomes of the call.
FillMethods == {"pad", "none"}

RECURSIVE LastValid(_, _, _)
\* ffill: the last price of column c that is present at or before date t.
LastValid(price, t, c) ==
  IF t = 0 THEN NaN
  ELSE IF ~IsNaN(price[t][c]) THEN price[t][c]
  ELSE LastValid(price, t - 1, c)

\* price_df.pct_change(): data / data.shift(1) - 1
pct_change(price, fill) ==
  [t \in DOMAIN price |->
    [c \in DOMAIN price[t] |->
      LET now == IF fill = "pad" THEN LastValid(price, t, c) ELSE price[t][c]
          before == IF t = 1 THEN NaN
                    ELSE IF fill = "pad" THEN LastValid(price, t - 1, c)
                    ELSE price[t - 1][c]
      IN IF IsNaN(now) \/ IsNaN(before) THEN NaN
         ELSE Sub(Div(now, before), Num(1))]]

\* Mutant: shift(-1) leaves the rows where they are.
shift_up_NotShifted(m) == m

\* price_returns.shift(-1): the row of the next date, NaN on the last.
shift_up(m) ==
  [t \in DOMAIN m |->
    [c \in DOMAIN m[t] |-> IF t < Len(m) THEN m[t + 1][c] ELSE NaN]]

\* Mutant: the returns are shifted up in both execution modes.
aligned_returns_AlwaysShifted(price, execution, fill) == shift_up(pct_change(price, fill))

aligned_returns(price, execution, fill) ==
  IF execution = "next_close" THEN shift_up(pct_change(price, fill))
  ELSE pct_change(price, fill)

\* Mutant: a date without a row takes the next supplied row instead of zeros.
full_weights_Backfilled(price, weights, wcols) ==
  [t \in DOMAIN price |->
     [c \in DOMAIN price[t] |->
        LET later == {u \in t..Len(weights) : weights[u] # <<>>}
        IN IF later = {} \/ c \notin Range(wcols) THEN Num(0)
           ELSE fillna0(weights[CHOOSE u \in later : \A x \in later : u <= x]
                               [CHOOSE i \in DOMAIN wcols : wcols[i] = c])]]

\* weights.reindex(index, columns).fillna(0.0), written into the zero matrix.
\* The price columns are labelled 1..T and wcols are the labels of the weight
\* columns: reindex looks a price column up by its label, and a label the
\* weights do not have gives NaN, filled with 0; a weight column whose label
\* is no price column is dropped.
full_weights(price, weights, wcols) ==
  [t \in DOMAIN price |->
    [c \in DOMAIN price[t] |->
      IF weights[t] = <<>> \/ c \notin Range(wcols) THEN Num(0)
      ELSE fillna0(weights[t][CHOOSE i \in DOMAIN wcols : wcols[i] = c])]]

\* Mutant: the first date's previous weights are its own, not zeros.
prev_w_Backfilled(fw) ==
  [t \in DOMAIN fw |-> [c \in DOMAIN fw[t] |-> IF t = 1 THEN fw[1][c] ELSE fw[t - 1][c]]]

\* full_weights.shift(1).fillna(0.0)
prev_w(fw) ==
  [t \in DOMAIN fw |-> [c \in DOMAIN fw[t] |-> IF t = 1 THEN Num(0) ELSE fw[t - 1][c]]]

\* (full_weights.subtract(prev_w)).abs().sum(axis=1)
turnover(fw) ==
  LET prev == prev_w(fw)
  IN [t \in DOMAIN fw |-> Sum([c \in DOMAIN fw[t] |-> AbsF(Sub(fw[t][c], prev[t][c]))])]

\* Mutant: a missing return counts as a return of 1.
masked_returns_FilledWithOne(aligned) ==
  [t \in DOMAIN aligned |->
     [c \in DOMAIN aligned[t] |-> IF IsNaN(aligned[t][c]) THEN Num(1) ELSE aligned[t][c]]]

\* aligned_returns.fillna(0.0)
masked_returns(aligned) ==
  [t \in DOMAIN aligned |-> [c \in DOMAIN aligned[t] |-> fillna0(aligned[t][c])]]

\* (full_weights * masked_returns).sum(axis=1)
gross(fw, masked) ==
  [t \in DOMAIN fw |-> Sum([c \in DOMAIN fw[t] |-> Mul(fw[t][c], masked[t][c])])]

\* turnover * float(transaction_cost_bps)
tx_cost(to, rate) == [t \in DOMAIN to |-> Mul(to[t], rate)]

\* Mutant: the cost is added to the gross return.
net_returns_CostAdded(gr, cost) == [t \in DOMAIN gr |-> Add(gr[t], cost[t])]

net_returns(gr, cost) == [t \in DOMAIN gr |-> Sub(gr[t], cost[t])]

RECURSIVE cumprod(_, _)
\* (1.0 + net).cumprod(): the running products of the first t dates.
cumprod(net, t) ==
  IF t = 0 THEN <<>>
  ELSE LET before == cumprod(net, t - 1)
           last == IF t = 1 THEN Num(1) ELSE before[t - 1]
       IN Append(before, Mul(last, Add(Num(1), net[t])))

cumulative(net) == cumprod(net, Len(net))

\* x < y on floats that may be infinite (n/0), never NaN.
LessInf(x, y) ==
  IF x.d = 0 THEN x.n < 0 /\ ~(y.d = 0 /\ y.n < 0)
  ELSE IF y.d = 0 THEN y.n > 0
  ELSE Less(x, y)

\* cumulative.cummax() at date t
cummax(cum, t) ==
  CHOOSE x \in {cum[i] : i \in 1..t} : \A i \in 1..t : ~Less(x, cum[i])

\* Mutant: the drawdown is measured from the first date's value, not from the
\* running peak.
drawdown_FromStart(cum) ==
  [t \in DOMAIN cum |-> Div(Sub(cum[t], cum[1]), cum[1])]

\* dd = (cumulative - peak) / peak
drawdown(cum) ==
  [t \in DOMAIN cum |->
     LET peak == cummax(cum, t) IN Div(Sub(cum[t], peak), peak)]

\* float(dd.min()) if not dd.empty else 0.0: min skips NaN, and is NaN when
\* no date holds a value.
max_drawdown(cum) ==
  LET dd == drawdown(cum)
      vals == {dd[t] : t \in DOMAIN cum} \ {NaN}
  IN IF cum = <<>> THEN Num(0)
     ELSE IF vals = {} THEN NaN
     ELSE CHOOSE x \in vals : \A y \in vals : ~LessInf(y, x)

\* The metrics a fraction can hold: the annualized return and volatility (a
\* power and a square root) are not modelled.
metrics(net, to) ==
  LET cum == cumulative(net)
  IN [cumulative_return |-> IF net = <<>> THEN Num(0) ELSE Sub(cum[Len(net)], Num(1)),
      max_drawdown |-> max_drawdown(cum),
      total_turnover |-> Sum(to)]

\* plot: the plot is exercised on the histories shorter than NumDates.
PlotChoices(D) == IF D < NumDates THEN BOOLEAN ELSE {FALSE}

\* The labels 1..T in order: the weight columns are the price columns.
SameColumns(T) == [i \in 1..T |-> i]

\* Weight columns that are not the price columns: one missing, one that has
\* no price column (label T + 1), the same set in another order.
OtherColumns(T) ==
  IF T = 1 THEN {<<2>>, <<1, 2>>} ELSE {<<1>>, <<1, 3>>, <<2, 1>>}

\* The column labels of the caller's weights; the other labels are exercised
\* on the histories shorter than NumDates that have a date.
WeightColumns(T, D) ==
  IF 0 < D /\ D < NumDates THEN {SameColumns(T)} \cup OtherColumns(T) ELSE {SameColumns(T)}

InitBacktest ==
  /\ ValidateIdle
  /\ SizeIdle
  /\ TargetsIdle
  /\ SnapshotIdle
  /\ PipelineIdle
  /\ b_pc = "call"
  /\ \E T \in ColumnCounts : \E D \in 0..NumDates :
       /\ b_price \in [1..D -> PriceRows(T)]
       /\ b_wcols \in WeightColumns(T, D)
       /\ b_weights \in [1..D -> WeightRows(Len(b_wcols))]
       /\ b_plot \in IF b_wcols = SameColumns(T) THEN PlotChoices(D) ELSE {FALSE}
  /\ b_execution \in ExecutionModes
  /\ b_cost \in CostRates
  /\ b_locals = NoLocals
  /\ b_result = NoResult
  /\ b_plotted = FALSE

\* Mutant: every execution string passes the first check.
valid_execution_Any(execution) == TRUE

\* execution in ("next_close", "same_close")
valid_execution(execution) == execution \in {"next_close", "same_close"}

\* execution is neither mode: the ValueError of the first statement.
BacktestRaises ==
  /\ b_pc = "call"
  /\ ~valid_execution(b_execution)
  /\ b_result' = [NoResult EXCEPT !.raised = "ValueError"]
  /\ b_pc' = "done"
  /\ UNCHANGED <<b_price, b_weights, b_wcols, b_execution, b_cost, b_plot, b_locals,
               b_plotted>>
  /\ UNCHANGED <<v_vars, s_vars, g_vars, n_vars, p_vars>>

\* The whole computation; with plot=True, _plot_aggregate_and_wealth ran and
\* returned.
BacktestReturns ==
  /\ b_pc = "call"
  /\ valid_execution(b_execution)
  /\ \E fill \in FillMethods :
       LET aligned == aligned_returns(b_price, b_execution, fill)
           fw == full_weights(b_price, b_weights, b_wcols)
           to == turnover(fw)
           gr == gross(fw, masked_returns(aligned))
           net == net_returns(gr, tx_cost(to, b_cost))
       IN /\ b_locals' = [aligned_returns |-> aligned, turnover |-> to, gross |-> gr]
          /\ b_result' = [raised |-> "none", net |-> net, full_weights |-> fw,
                          metrics |-> metrics(net, to)]
  /\ b_plotted' = b_plot
  /\ b_pc' = "done"
  /\ UNCHANGED <<b_price, b_weights, b_wcols, b_execution, b_cost, b_plot>>
  /\ UNCHANGED <<v_vars, s_vars, g_vars, n_vars, p_vars>>

\* plot=True and _plot_aggregate_and_wealth raised (the figure, the directory
\* or the file could not be made): the RuntimeError that wraps it.  The file
\* may or may not have been written by then.
BacktestPlotFails ==
  /\ b_pc = "call"
  /\ valid_execution(b_execution)
  /\ b_plot
  /\ \E fill \in FillMethods :
       LET aligned == aligned_returns(b_price, b_execution, fill)
           fw == full_weights(b_price, b_weights, b_wcols)
       IN b_locals' = [aligned_returns |-> aligned, turnover |-> turnover(fw),
                       gross |-> gross(fw, masked_returns(aligned))]
  /\ b_result' = [NoResult EXCEPT !.raised = "RuntimeError"]
  /\ b_plotted' \in BOOLEAN
  /\ b_pc' = "done"
  /\ UNCHANGED <<b_price, b_weights, b_wcols, b_execution, b_cost, b_plot>>
  /\ UNCHANGED <<v_vars, s_vars, g_vars, n_vars, p_vars>>

NextBacktest == BacktestRaises \/ BacktestReturns \/ BacktestPlotFails

SpecBT == InitBacktest /\ [][NextBacktest]_vars

(***************************************************************************)
(* Claims about the backtester                                             *)
(***************************************************************************)
Returned_ok == b_pc = "done" /\ b_result.raised = "none"

Present(x) == ~IsNaN(x)

ZeroRow(row) == \A c \in DOMAIN row : row[c] = Num(0)

\* The weight the caller supplied for date t and column c, 0 where the caller
\* supplied no row for t; and 0 before the first date.
Supplied(t, c) ==
  IF t = 0 THEN Num(0)
  ELSE IF b_weights[t] = <<>> THEN Num(0)
  ELSE IF \A i \in DOMAIN b_wcols : b_wcols[i] # c THEN Num(0)
  ELSE b_weights[t][CHOOSE i \in DOMAIN b_wcols : b_wcols[i] = c]

\* sum over the instruments of |w[t][i] - w[t-1][i]|, from the caller's input
L1Change(t) ==
  Sum([c \in DOMAIN b_price[t] |-> AbsF(Sub(Supplied(t, c), Supplied(t - 1, c)))])

\* The return that applies to date t and column c: price[t]/price[t-1] - 1
\* under same_close, price[t+1]/price[t] - 1 under next_close, where both
\* prices are present; otherwise what the run took (0 for a missing return).
Applicable(t, c) ==
  LET u == IF b_execution = "same_close" THEN t ELSE t + 1
  IN IF u >= 2 /\ u <= Len(b_price) /\ Present(b_price[u][c]) /\ Present(b_price[u - 1][c])
       THEN Sub(Div(b_price[u][c], b_price[u - 1][c]), Num(1))
       ELSE fillna0(b_locals.aligned_returns[t][c])

WeightedReturn(t) ==
  Sum([c \in DOMAIN b_price[t] |-> Mul(b_result.full_weights[t][c], Applicable(t, c))])

\* C7: on every date t the net return is the sum over the instruments of
\* realized weight times applicable return, minus turnover times the cost
\* rate; so on a date whose realized weights equal the previous date's the net
\* return is the gross return whatever the cost rate.
C7_NetIsGrossMinusCost ==
  Returned_ok =>
    /\ Len(b_result.net) = Len(b_price)
    /\ \A t \in DOMAIN b_price :
         /\ b_result.net[t] = Sub(WeightedReturn(t), Mul(L1Change(t), b_cost))
         /\ (t >= 2 /\ b_result.full_weights[t] = b_result.full_weights[t - 1])
              => b_result.net[t] = WeightedReturn(t)

\* C7 witness: two instruments both held at 0.5 on consecutive dates under
\* same_close with a cost rate that is not 0: the later date's net return is
\* 0.5 * rA + 0.5 * rB, and not 0.
C7_Witness ==
  /\ Returned_ok
  /\ b_execution = "same_close"
  /\ b_cost # Num(0)
  /\ \E t \in 2..Len(b_price) :
       /\ b_result.full_weights[t - 1] = <<Frac(1, 2), Frac(1, 2)>>
       /\ b_result.full_weights[t] = <<Frac(1, 2), Frac(1, 2)>>
       /\ b_result.net[t] =
            Add(Mul(Frac(1, 2), Sub(Div(b_price[t][1], b_price[t - 1][1]), Num(1))),
                Mul(Frac(1, 2), Sub(Div(b_price[t][2], b_price[t - 1][2]), Num(1))))
       /\ b_result.net[t] # Num(0)

\* C8: turnover on the first date is the sum of the absolute realized weights
\* of that date, and on a later date t the sum of |w[t][i] - w[t-1][i]| over
\* the realized weights, in which a date the caller did not supply is an
\* all-zero row between its neighbours; the total turnover is their sum.
C8_TurnoverFromRealizedWeights ==
  Returned_ok =>
    /\ Len(b_locals.turnover) = Len(b_price)
    /\ \A t \in DOMAIN b_price : b_locals.turnover[t] = L1Change(t)
    /\ b_price # <<>> =>
         b_locals.turnover[1] =
           Sum([c \in DOMAIN b_price[1] |-> AbsF(b_result.full_weights[1][c])])
    /\ b_result.metrics.total_turnover = Sum([t \in DOMAIN b_price |-> L1Change(t)])

\* C8 witness: rows supplied for the first and the third date and none for the
\* second: the second date's turnover is the exit from the first row and the
\* third's the entry into the third row.
C8_Witness ==
  /\ Returned_ok
  /\ Len(b_price) >= 3
  /\ b_weights[1] # <<>> /\ b_weights[2] = <<>> /\ b_weights[3] # <<>>
  /\ b_locals.turnover[1] # Num(0)
  /\ b_locals.turnover[2] = b_locals.turnover[1]
  /\ b_locals.turnover[3] = Sum([c \in DOMAIN b_price[3] |-> AbsF(b_weights[3][c])])
  /\ b_locals.turnover[3] # Num(0)

\* C9: the realized weights have exactly the dates of the price matrix, in
\* order, and its columns; they are the supplied row on a supplied date and
\* all zero on a date without one; and when rows are supplied only for a
\* suffix of the dates, every prefix date has net return exactly 0.
C9_RealizedWeightsOnFullIndex ==
  Returned_ok =>
    /\ Len(b_result.full_weights) = Len(b_price)
    /\ Len(b_result.net) = Len(b_price)
    /\ \A t \in DOMAIN b_price :
         /\ DOMAIN b_result.full_weights[t] = DOMAIN b_price[t]
         /\ \A c \in DOMAIN b_price[t] : b_result.full_weights[t][c] = Supplied(t, c)
         /\ b_weights[t] = <<>> => ZeroRow(b_result.full_weights[t])
         /\ (\A u \in 1..t : b_weights[u] = <<>>) => b_result.net[t] = Num(0)

\* C9 witness: no row for the first dates, a non-zero row for a later one, a
\* cost rate that is not 0: the first dates are all zero with net return 0.
C9_Witness ==
  /\ Returned_ok
  /\ b_cost # Num(0)
  /\ Len(b_price) >= 3
  /\ b_weights[1] = <<>> /\ b_weights[2] = <<>>
  /\ b_weights[3] # <<>> /\ ~ZeroRow(b_result.full_weights[3])
  /\ ZeroRow(b_result.full_weights[1]) /\ ZeroRow(b_result.full_weights[2])
  /\ b_result.net[1] = Num(0) /\ b_result.net[2] = Num(0)
  /\ b_result.net[3] # Num(0)

\* C10: a single instrument held at weight 1.0 on every date, same_close, cost
\* rate 0: the net return is 0 on the first date and price[t]/price[t-1] - 1
\* on every later date t (of a price sequence with both prices present).
C10_SingleTickerPassThrough ==
  (/\ Returned_ok
   /\ b_execution = "same_close"
   /\ b_cost = Num(0)
   /\ b_wcols = <<1>>
   /\ \A t \in DOMAIN b_price : DOMAIN b_price[t] = {1} /\ b_weights[t] = <<Num(1)>>)
    => /\ b_price # <<>> => b_result.net[1] = Num(0)
       /\ \A t \in 2..Len(b_price) :
            (Present(b_price[t][1]) /\ Present(b_price[t - 1][1]))
              => b_result.net[t] = Sub(Div(b_price[t][1], b_price[t - 1][1]), Num(1))

\* C10 witness: the prices 1, 2, 1 held at weight 1.0 gave the returns 0, 1, -1/2.
C10_Witness ==
  /\ Returned_ok
  /\ b_execution = "same_close"
  /\ b_cost = Num(0)
  /\ b_price = <<<<Num(1)>>, <<Num(2)>>, <<Num(1)>>>>
  /\ b_weights = <<<<Num(1)>>, <<Num(1)>>, <<Num(1)>>>>
  /\ b_result.net = <<Num(0), Num(1), Frac(-1, 2)>>

\* The net returns the same prices, realized weights and cost rate give under
\* same_close, with the library's fill method fill.
SameCloseNet(fill) ==
  net_returns(gross(b_result.full_weights,
                    masked_returns(aligned_returns(b_price, "same_close", fill))),
              tx_cost(turnover(b_result.full_weights), b_cost))

\* C11: under next_close, a single instrument held at weight 1.0, cost rate 0:
\* returns[t] = price[t+1]/price[t] - 1 on every date t that has a successor
\* (both prices present), and the series is the same_close series of the same
\* inputs one period earlier: returns[t] = same_close returns[t+1].
C11_NextCloseShiftedEarlier ==
  (/\ Returned_ok
   /\ b_execution = "next_close"
   /\ b_cost = Num(0)
   /\ b_wcols = <<1>>
   /\ \A t \in DOMAIN b_price : DOMAIN b_price[t] = {1} /\ b_weights[t] = <<Num(1)>>)
    => /\ \A t \in 1..(Len(b_price) - 1) :
            (Present(b_price[t][1]) /\ Present(b_price[t + 1][1]))
              => b_result.net[t] = Sub(Div(b_price[t + 1][1], b_price[t][1]), Num(1))
       /\ \E fill \in FillMethods :
            /\ b_locals.aligned_returns = aligned_returns(b_price, "next_close", fill)
            /\ \A t \in 1..(Len(b_price) - 1) : b_result.net[t] = SameCloseNet(fill)[t + 1]

\* C11 witness: the prices 1, 2, 1 held at weight 1.0 under next_close gave
\* the returns 1, -1/2, 0.
C11_Witness ==
  /\ Returned_ok
  /\ b_execution = "next_close"
  /\ b_cost = Num(0)
  /\ b_price = <<<<Num(1)>>, <<Num(2)>>, <<Num(1)>>>>
  /\ b_weights = <<<<Num(1)>>, <<Num(1)>>, <<Num(1)>>>>
  /\ b_result.net = <<Num(1), Frac(-1, 2), Num(0)>>

Defined(x) == x.d > 0

\* C12: a missing applicable return contributes zero to the gross return: in
\* both execution modes the net return is a defined number on every date of
\* the price index, the gross return is the sum of realized weight times
\* applicable return over the cells whose return is present, and on the last
\* date under next_close the net return is minus turnover times cost rate.
C12_MissingReturnContributesZero ==
  Returned_ok =>
    /\ Len(b_result.net) = Len(b_price)
    /\ \A t \in DOMAIN b_price :
         /\ Defined(b_result.net[t])
         /\ b_locals.gross[t] =
              Sum([c \in DOMAIN b_price[t] |->
                     IF IsNaN(b_locals.aligned_returns[t][c]) THEN Num(0)
                     ELSE Mul(b_result.full_weights[t][c], b_locals.aligned_returns[t][c])])
         /\ b_result.net[t] = Sub(b_locals.gross[t], Mul(L1Change(t), b_cost))
    /\ (b_execution = "next_close" /\ b_price # <<>>)
         => b_result.net[Len(b_price)] = Sub(Num(0), Mul(L1Change(Len(b_price)), b_cost))
    /\ (b_execution = "same_close" /\ b_price # <<>>) => b_locals.gross[1] = Num(0)

\* C12 witness: under next_close with a cost rate that is not 0, a missing
\* price in the middle and a position entered on the last date: the dates next
\* to the missing price have a defined return and the last date's net return
\* is minus its cost, not 0.
C12_Witness ==
  /\ Returned_ok
  /\ b_execution = "next_close"
  /\ b_cost # Num(0)
  /\ Len(b_price) = 3
  /\ IsNaN(b_price[2][1])
  /\ b_result.full_weights[1][1] # Num(0)
  /\ IsNaN(b_locals.aligned_returns[3][1])
  /\ Defined(b_result.net[1]) /\ Defined(b_result.net[2])
  /\ L1Change(3) # Num(0)
  /\ b_result.net[3] = Sub(Num(0), Mul(L1Change(3), b_cost))

\* C13: with an execution mode other than same_close and next_close the call
\* raises before any simulation step: no series was computed, no returns, no
\* realized weights and no metrics are returned and no plot is made, whatever
\* the other arguments are (plot requested or not).
C13_BadExecutionFailsFirst ==
  (b_pc = "done" /\ b_execution \notin {"next_close", "same_close"})
    => /\ b_result.raised = "ValueError"
       /\ b_result.net = <<>>
       /\ b_result.full_weights = <<>>
       /\ b_result.metrics = <<>>
       /\ b_locals = NoLocals
       /\ ~b_plotted

\* C13 witness: next_open with a plot requested ended in the ValueError with
\* nothing computed and nothing plotted.
C13_Witness ==
  /\ b_pc = "done"
  /\ b_execution = "next_open"
  /\ b_plot
  /\ Len(b_price) >= 2
  /\ \E t \in DOMAIN b_weights : b_weights[t] # <<>>
  /\ b_result = [NoResult EXCEPT !.raised = "ValueError"]
  /\ b_locals = NoLocals
  /\ ~b_plotted

RECURSIVE RunningProduct(_, _)
\* The product of (1 + net[s]) over the dates s <= t.
RunningProduct(net, t) ==
  IF t = 0 THEN Num(1) ELSE Mul(RunningProduct(net, t - 1), Add(Num(1), net[t]))

\* The largest running product over the dates s <= t.
RunningPeak(net, t) ==
  CHOOSE x \in {RunningProduct(net, s) : s \in 1..t} :
    \A s \in 1..t : ~Less(x, RunningProduct(net, s))

\* cumulative[t] / (maximum of cumulative[s], s <= t) - 1
PeakRatio(net, t) ==
  Sub(Div(RunningProduct(net, t), RunningPeak(net, t)), Num(1))

\* C22: the max_drawdown metric is the minimum over the dates t of
\* cumulative[t] / max(cumulative[s], s <= t) - 1, cumulative being the
\* running product of 1 + net; it is 0 when the series has no date.
C22_MaxDrawdownIsWorstPeakRatio ==
  Returned_ok =>
    LET net == b_result.net
        md == b_result.metrics.max_drawdown
    IN /\ net = <<>> => md = Num(0)
       /\ net # <<>> =>
            /\ \E t \in DOMAIN net : md = PeakRatio(net, t)
            /\ \A t \in DOMAIN net : ~Less(PeakRatio(net, t), md)

\* C22 witness: a run whose wealth rose above its first value and then fell:
\* the worst ratio is negative, is reached after a peak that is not the first
\* date's value, and differs from the fall since the first date.
C22_Witness ==
  /\ Returned_ok
  /\ \E t \in DOMAIN b_result.net :
       /\ b_result.metrics.max_drawdown = PeakRatio(b_result.net, t)
       /\ Less(b_result.metrics.max_drawdown, Num(0))
       /\ Less(RunningProduct(b_result.net, 1), RunningPeak(b_result.net, t))

\* The instruments of the price matrix.
PriceColumns == DOMAIN b_price[1]

\* C20: with incompatible instrument sets (a weight column for an instrument
\* without a price column, or a priced instrument without a weight column)
\* backtest_from_weights fails with an error: it returns nothing, and never
\* drops or zero-fills an instrument.
C20_ColumnMismatchFails ==
  (/\ b_pc = "done"
   /\ b_execution \in {"next_close", "same_close"}
   /\ b_price # <<>>
   /\ Range(b_wcols) # PriceColumns)
    => /\ b_result.raised \notin {"none", "RuntimeError"}
       /\ b_result.net = <<>>
       /\ b_result.full_weights = <<>>

(***************************************************************************)
(* StrategyFactory.generate_targets, statement by statement: the position  *)
(* g_pc is the statement about to run.  The indicator library is outside   *)
(* the repository: g_ind holds the frame it returns for each feature id.   *)
(***************************************************************************)
\* A feature of the configuration: its id, its indicator name and the kind
\* of value under "params" ("dict" also when the key is absent).
FeatureWith(i, ind, params) == [id |-> i, indicator |-> ind, params |-> params]

Feature(i, ind) == FeatureWith(i, ind, "dict")

\* The indicator names the library has.
KnownIndicators == {"sma"}

FeatureLists ==
  {<<>>,
   <<Feature("sma3", "sma")>>,
   <<Feature("sma3", "sma"), Feature("sma5", "sma")>>,
   <<Feature("sma3", "sma"), Feature("sma5", "bogus")>>,
   <<FeatureWith("sma3", "sma", "list")>>,
   <<Feature("sma3", "sma"), FeatureWith("sma5", "bogus", "list")>>,
   <<Feature("sma3", "bogus"), FeatureWith("sma5", "sma", "list")>>}

\* Indicator frames: one date, two tickers.
Frames ==
  {<<<<Num(1), Num(2)>>>>, <<<<Num(2), Num(1)>>>>, <<<<NaN, Num(1)>>>>,
   <<<<Num(0), Num(0)>>>>}

\* Indicator frames of a price history with a single ticker.
SingleFrames == {<<<<Num(1)>>>>, <<<<Num(2)>>>>, <<<<NaN>>>>}

\* What the indicator library returns for the feature ids: every feature has
\* the dates and tickers of the one price history.
IndicatorOutputs == [FeatureIds -> Frames] \cup [FeatureIds -> SingleFrames]

\* sig_cfg.get("type"): "None" is a signal section without a type.
SignalTypes == {"boolean_expression", "threshold", "None"}

RankingMethods == {"rank", "zscore"}

SizingMethods == {"equal_weight", "inverse_vol"}

TargetExprs ==
  {Unparsable} \cup
  {Expression(e) : e \in
     {Compare(Name("sma3"), "Gt", Name("sma5")),
      Compare(Name("sma3"), "Lt", Name("sma5")),
      Compare(Name("sma3"), "NotEq", Name("sma5")),
      Compare(Name("sma3"), "GtE", Constant("1")),
      Compare(Constant("1"), "LtE", Name("sma3")),
      Compare(Constant("0"), "Lt", Constant("1")),
      Compare(Compare(Name("sma3"), "Gt", Name("sma5")), "Eq", Constant("0")),
      Name("sma3"),
      Constant("1"),
      BoolOp("And", Compare(Name("sma3"), "Gt", Constant("0")),
                    Compare(Name("sma5"), "Gt", Constant("0"))),
      BoolOp("And", Constant("1"), Compare(Name("sma3"), "Gt", Constant("1"))),
      BoolOp("Or", Constant("0"), Name("sma3")),
      BoolOp("Or", Constant("1"), Name("sma3")),
      UnaryOp("Not", Compare(Name("sma3"), "Gt", Name("sma5"))),
      UnaryOp("Not", Constant("0")),
      Call(Name("sma3"), <<>>),
      Call(Name("os"), <<Constant("1")>>),
      Compare(Call(Name("sma3"), <<>>), "Gt", Constant("0")),
      BoolOp("And", Compare(Name("sma3"), "Gt", Constant("0")),
                    Call(Name("os"), <<>>)),
      Compare(Name("os"), "Gt", Constant("0")),
      Compare(BinOp(Name("sma3"), "Sub", Name("sma5")), "Gt", Constant("0"))}}

TargetTopNs == {<<>>, <<1>>}

\* Every expression under the specified policy (rank, equal_weight); every
\* policy for one expression; and the configurations that lack a section.
Configs ==
  [keys : {{"features", "signal"}}, features : FeatureLists, sig_type : SignalTypes,
   expression : TargetExprs, top_n : TargetTopNs,
   ranking_method : {"rank"}, sizing_method : {"equal_weight"}]
    \cup
  [keys : {{"features", "signal"}},
   features : {<<Feature("sma3", "sma"), Feature("sma5", "sma")>>},
   sig_type : SignalTypes,
   expression : {Expression(Compare(Name("sma3"), "Gt", Name("sma5")))},
   top_n : TargetTopNs,
   ranking_method : RankingMethods, sizing_method : SizingMethods]
    \cup
  [keys : {{"features"}, {"signal"}, {}}, features : {<<Feature("sma3", "sma")>>},
   sig_type : {"boolean_expression"},
   expression : {Expression(Compare(Name("sma3"), "Gt", Constant("0")))},
   top_n : {<<>>},
   ranking_method : {"rank"}, sizing_method : {"equal_weight"}]

\* Mutant: a signal type that is not boolean_expression is taken as one.
check_signal_type_Defaults(sig_type) == Returned

\* if sig_type == "boolean_expression": ... else: raise NotImplementedError
check_signal_type(sig_type) ==
  IF sig_type = "boolean_expression" THEN Returned
  ELSE Raise("NotImplementedError", "Signal type not implemented", sig_type)

validate_config(cfg) ==
  IF "features" \notin cfg.keys
    THEN Raise("ValueError", "config missing 'features' list", "")
  ELSE IF "signal" \notin cfg.keys
    THEN Raise("ValueError", "config missing 'signal' section", "")
  ELSE Returned

\* Mutant: the statement after a call runs although the call raised.
Propagate_Swallowed(r, next) == next

\* A call that raises ends the invocation; one that returns goes on to the
\* next statement.
Propagate(r, next) == IF r.raised # "none" THEN "raised" ELSE next

Outcome(r, next) ==
  IF Propagate(r, next) = "raised" THEN [raised |-> r.raised, weights |-> <<>>]
  ELSE g_result

\* compute_indicator on one column of a feature raises: params is not a dict,
\* or neither pandas_ta nor the frame accessor has the indicator.
Fails(feature) ==
  feature.params # "dict" \/ feature.indicator \notin KnownIndicators

\* The feature loop: compute_indicator is called for every column of every
\* feature in order; the first feature on which it raises ends the loop.
FirstFailing(features) ==
  LET bad == {i \in DOMAIN features : Fails(features[i])}
  IN IF bad = {} THEN Len(features) + 1
     ELSE CHOOSE i \in bad : \A j \in bad : i <= j

\* Mutant: the feature loop wraps every indicator failure in a ValueError.
compute_indicator_Wrapped(features) ==
  IF FirstFailing(features) <= Len(features)
    THEN Raise("ValueError", "feature computation failed",
               features[FirstFailing(features)].id)
  ELSE Returned

\* The isinstance check of params comes before the lookup of the indicator.
compute_indicator(features) ==
  IF FirstFailing(features) <= Len(features)
    THEN LET feature == features[FirstFailing(features)]
         IN IF feature.params # "dict"
              THEN Raise("TypeError", "params must be a dict of keyword arguments",
                         feature.id)
            ELSE Raise("AttributeError", "Indicator not found in pandas_ta",
                       feature.indicator)
  ELSE Returned

Computed(features) == {features[i].id : i \in 1..(FirstFailing(features) - 1)}

NumColumns == Len(g_ind["sma3"][1])

Calls(features) ==
  NumColumns * (FirstFailing(features) - 1)
    + (IF FirstFailing(features) <= Len(features) THEN 1 ELSE 0)

(***************************************************************************)
(* eval(compile(expr, "<expr>", "eval"), {"__builtins__": {}}, local_vars) *)
(* A value is a frame, a scalar (a number; True is 1 and False 0), or the  *)
(* exception the evaluation raised.                                        *)
(***************************************************************************)
FrameValue(m) == [kind |-> "frame", m |-> m, v |-> NaN]

ScalarValue(x) == [kind |-> "scalar", m |-> <<>>, v |-> x]

RaisedValue == [kind |-> "raise", m |-> <<>>, v |-> NaN]

Bool(b) == IF b THEN Num(1) ELSE Num(0)

\* One comparison of two floats: every comparison with NaN is False, but !=.
CmpCell(op, x, y) ==
  IF IsNaN(x) \/ IsNaN(y) THEN op = "NotEq"
  ELSE CASE op = "Gt" -> Less(y, x)
         [] op = "Lt" -> Less(x, y)
         [] op = "GtE" -> ~Less(x, y)
         [] op = "LtE" -> ~Less(y, x)
         [] op = "Eq" -> x = y
         [] op = "NotEq" -> x # y

ArithCell(op, x, y) ==
  IF IsNaN(x) \/ IsNaN(y) THEN NaN
  ELSE CASE op = "Add" -> Add(x, y)
         [] op = "Sub" -> Sub(x, y)
         [] op = "Mult" -> Mul(x, y)
         [] op = "Div" -> Div(x, y)

\* The cell of a value at (d, c): a scalar is broadcast over the frame.
CellOf(a, d, c) == IF a.kind = "frame" THEN a.m[d][c] ELSE a.v

ShapeOf(a, b) == IF a.kind = "frame" THEN a.m ELSE b.m

\* left <op> right on frames and scalars, element by element.
CompareValues(a, op, b) ==
  IF a.kind = "raise" \/ b.kind = "raise" THEN RaisedValue
  ELSE IF a.kind = "scalar" /\ b.kind = "scalar"
    THEN ScalarValue(Bool(CmpCell(op, a.v, b.v)))
  ELSE FrameValue([d \in DOMAIN ShapeOf(a, b) |->
                     [c \in DOMAIN ShapeOf(a, b)[d] |->
                        Bool(CmpCell(op, CellOf(a, d, c), CellOf(b, d, c)))]])

ArithValues(a, op, b) ==
  IF a.kind = "raise" \/ b.kind = "raise" THEN RaisedValue
  ELSE IF a.kind = "scalar" /\ b.kind = "scalar"
    THEN IF op = "Div" /\ b.v = Num(0) THEN RaisedValue
         ELSE ScalarValue(ArithCell(op, a.v, b.v))
  ELSE FrameValue([d \in DOMAIN ShapeOf(a, b) |->
                     [c \in DOMAIN ShapeOf(a, b)[d] |->
                        ArithCell(op, CellOf(a, d, c), CellOf(b, d, c))]])

\* bool(x): a frame has no truth value (ValueError).
Truthy(a) == a.v # Num(0)

RECURSIVE Eval(_, _)
\* The value of a tree with the computed features as its local names.  and /
\* or take the truth value of their left operand and return one operand; a
\* name that is not a local, and every call (a frame is not callable, and
\* there are no builtins), raises.
Eval(n, names) ==
  CASE n.type = "Expression" -> Eval(n.args[1], names)
    [] n.type = "Unparsable" -> RaisedValue
    [] n.type = "Name" ->
         IF n.id \in names THEN FrameValue(g_ind[n.id]) ELSE RaisedValue
    [] n.type = "Constant" -> ScalarValue(IF n.value = "0" THEN Num(0) ELSE Num(1))
    [] n.type = "Compare" ->
         CompareValues(Eval(n.args[1], names), n.args[2].type, Eval(n.args[3], names))
    [] n.type = "BinOp" ->
         ArithValues(Eval(n.args[1], names), n.args[2].type, Eval(n.args[3], names))
    [] n.type = "BoolOp" ->
         LET l == Eval(n.args[2], names)
         IN IF l.kind # "scalar" THEN RaisedValue
            ELSE IF (n.args[1].type = "And") = Truthy(l) THEN Eval(n.args[3], names)
            ELSE l
    [] n.type = "UnaryOp" /\ n.args[1].type = "Not" ->
         LET l == Eval(n.args[2], names)
         IN IF l.kind # "scalar" THEN RaisedValue ELSE ScalarValue(Bool(~Truthy(l)))
    [] n.type = "Call" -> RaisedValue

\* The try/except around eval and the checks on the mask's type.
evaluate(expr, names) ==
  IF Eval(expr, names).kind = "raise"
    THEN Raise("UnsafeExpressionError", "Error evaluating expression", "")
  ELSE IF Eval(expr, names).kind # "frame"
    THEN Raise("ValueError",
               "Signal expression must evaluate to a pandas DataFrame or Series", "")
  ELSE Returned

\* signal = mask.astype(float)
astype_float(expr, names) == Eval(expr, names).m

InitTargets ==
  /\ ValidateIdle
  /\ SizeIdle
  /\ BacktestIdle
  /\ SnapshotIdle
  /\ PipelineIdle
  /\ g_pc = "validate_config"
  /\ g_config \in Configs
  /\ g_ind \in IndicatorOutputs
  /\ g_computed = {}
  /\ g_calls = 0
  /\ g_validation = NotRun
  /\ g_evals = 0
  /\ g_signal = <<>>
  /\ g_result = NoTargets

ValidateConfig ==
  /\ g_pc = "validate_config"
  /\ g_pc' = Propagate(validate_config(g_config), "features")
  /\ g_result' = Outcome(validate_config(g_config), "features")
  /\ UNCHANGED <<g_config, g_ind, g_computed, g_calls, g_validation, g_evals, g_signal>>
  /\ UNCHANGED <<v_vars, s_vars, b_vars, n_vars, p_vars>>

ComputeFeatures ==
  /\ g_pc = "features"
  /\ g_computed' = Computed(g_config.features)
  /\ g_calls' = Calls(g_config.features)
  /\ g_pc' = Propagate(compute_indicator(g_config.features), "signal")
  /\ g_result' = Outcome(compute_indicator(g_config.features), "signal")
  /\ UNCHANGED <<g_config, g_ind, g_validation, g_evals, g_signal>>
  /\ UNCHANGED <<v_vars, s_vars, b_vars, n_vars, p_vars>>

SignalType ==
  /\ g_pc = "signal"
  /\ g_pc' = Propagate(check_signal_type(g_config.sig_type), "validate")
  /\ g_result' = Outcome(check_signal_type(g_config.sig_type), "validate")
  /\ UNCHANGED <<g_config, g_ind, g_computed, g_calls, g_validation, g_evals, g_signal>>
  /\ UNCHANGED <<v_vars, s_vars, b_vars, n_vars, p_vars>>

ValidateExpression ==
  /\ g_pc = "validate"
  /\ g_validation' = safe_compile_boolean_expression(g_config.expression, g_computed)
  /\ g_pc' = Propagate(g_validation', "eval")
  /\ g_result' = Outcome(g_validation', "eval")
  /\ UNCHANGED <<g_config, g_ind, g_computed, g_calls, g_evals, g_signal>>
  /\ UNCHANGED <<v_vars, s_vars, b_vars, n_vars, p_vars>>

Evaluate ==
  /\ g_pc = "eval"
  /\ g_evals' = g_evals + 1
  /\ g_signal' = IF evaluate(g_config.expression, g_computed) = Returned
                   THEN astype_float(g_config.expression, g_computed)
                   ELSE g_signal
  /\ g_pc' = Propagate(evaluate(g_config.expression, g_computed), "size")
  /\ g_result' = Outcome(evaluate(g_config.expression, g_computed), "size")
  /\ UNCHANGED <<g_config, g_ind, g_computed, g_calls, g_validation>>
  /\ UNCHANGED <<v_vars, s_vars, b_vars, n_vars, p_vars>>

SizeTargets ==
  /\ g_pc = "size"
  /\ \E w \in SizeFrom(g_signal, g_config.top_n, 1) :
       g_result' = [raised |-> "none", weights |-> w]
  /\ g_pc' = "returned"
  /\ UNCHANGED <<g_config, g_ind, g_computed, g_calls, g_validation, g_evals, g_signal>>
  /\ UNCHANGED <<v_vars, s_vars, b_vars, n_vars, p_vars>>

NextTargets ==
  \/ ValidateConfig
  \/ ComputeFeatures
  \/ SignalType
  \/ ValidateExpression
  \/ Evaluate
  \/ SizeTargets

SpecTargets == InitTargets /\ [][NextTargets]_vars

(***************************************************************************)
(* Claims about generate_targets                                           *)
(***************************************************************************)
\* C2: the expression is evaluated only after validation of that expression
\* has succeeded; whenever validation raised, the evaluation step has not run
\* at all, there is no signal, and the invocation ends with the validator's
\* exception and no weight matrix.
C2_EvaluatedOnlyAfterValidation ==
  /\ g_pc \in {"eval", "size"} \/ g_evals > 0 \/ g_signal # <<>>
       => g_validation = Returned
  /\ g_validation # NotRun
       => g_validation = safe_compile_boolean_expression(g_config.expression, g_computed)
  /\ g_validation.raised \notin {"pending", "none"}
       => /\ g_evals = 0
          /\ g_signal = <<>>
          /\ g_pc = "raised"
          /\ g_result = [raised |-> g_validation.raised, weights |-> <<>>]

\* C2 witness: with a feature computed, validation raised UnsafeExpression for
\* a call; nothing was evaluated and the invocation ended with that exception.
C2_Witness ==
  /\ g_pc = "raised"
  /\ g_computed # {}
  /\ IsUnsafe(g_validation)
  /\ g_validation.msg = "Function calls are not allowed in expressions"
  /\ g_evals = 0
  /\ g_signal = <<>>
  /\ g_result = [raised |-> "UnsafeExpressionError", weights |-> <<>>]
\* The run is past the evaluation step without an exception.
Compiled == g_evals > 0 /\ g_pc \in {"size", "returned"} /\ g_result.raised = "none"

\* The value of an operand of the configured expression at cell (d, c).
OperandAt(n, d, c) == CellOf(Eval(n, g_computed), d, c)

Cells == {dc \in (1..1) \X (1..NumColumns) : TRUE}

IsFrameComparison(n) == n.type = "Compare" /\ Eval(n, g_computed).kind = "frame"

\* C14: for a validated expression that combines comparisons with and / or /
\* not, compilation succeeds and the signal at each cell is the conjunction /
\* disjunction / negation of the operands' values at that cell, for feature
\* matrices with more than one cell.
C14_BooleanOperatorsElementwise ==
  LET e == g_config.expression.args[1]
  IN (/\ g_evals > 0
      /\ g_validation = Returned
      /\ NumColumns > 1
      /\ e.type \in {"BoolOp", "UnaryOp"}
      /\ \A i \in 2..Len(e.args) : IsFrameComparison(e.args[i]))
       => /\ Compiled
          /\ \A dc \in Cells :
               g_signal[dc[1]][dc[2]] =
                 Bool(CASE e.args[1].type = "And" ->
                             /\ OperandAt(e.args[2], dc[1], dc[2]) = Num(1)
                             /\ OperandAt(e.args[3], dc[1], dc[2]) = Num(1)
                        [] e.args[1].type = "Or" ->
                             \/ OperandAt(e.args[2], dc[1], dc[2]) = Num(1)
                             \/ OperandAt(e.args[3], dc[1], dc[2]) = Num(1)
                        [] e.args[1].type = "Not" ->
                             OperandAt(e.args[2], dc[1], dc[2]) # Num(1))

\* The feature ids an expression mentions.
Mentioned(e) == {n.id : n \in {x \in Nodes(e) : x.type = "Name"}}

\* C15: for every validated comparison expression (any of > < >= <= == !=),
\* compilation does not raise and the signal is 0 (not satisfied) at every cell
\* where a feature the expression mentions is missing.
C15_MissingIsNotSatisfied ==
  LET e == g_config.expression.args[1]
  IN (/\ g_evals > 0
      /\ g_validation = Returned
      /\ e.type = "Compare"
      /\ Mentioned(e) # {})
       => /\ Compiled
          /\ \A dc \in Cells :
               (\E f \in Mentioned(e) : IsNaN(g_ind[f][dc[1]][dc[2]]))
                 => g_signal[dc[1]][dc[2]] = Num(0)

\* C16: when the expression evaluates to a scalar (or a one-dimensional
\* result), it is promoted to a single-column signal matrix if and only if
\* the universe has exactly one instrument; with more than one instrument
\* compilation fails with a shape error and no weights are produced.
C16_ScalarPromotedForOneInstrument ==
  (/\ g_evals > 0
   /\ g_validation = Returned
   /\ Eval(g_config.expression, g_computed).kind = "scalar")
    => IF NumColumns = 1
         THEN /\ Compiled
              /\ Len(g_signal) = 1
              /\ Len(g_signal[1]) = 1
         ELSE /\ g_pc = "raised"
              /\ g_result = [raised |-> "ValueError", weights |-> <<>>]

\* C17: with a signal type other than boolean_expression (an absent type
\* included) generate_targets fails and returns no weights: the expression is
\* never validated or evaluated as if the type were boolean_expression, and a
\* run whose sections are present and whose features were computed ends in the
\* unsupported-signal-type error (NotImplementedError naming the type).
C17_UnsupportedSignalTypeFails ==
  (g_pc # "idle" /\ g_config.sig_type # "boolean_expression")
    => /\ g_pc \notin {"validate", "eval", "size", "returned"}
       /\ g_validation = NotRun
       /\ g_evals = 0
       /\ g_signal = <<>>
       /\ g_result.weights = <<>>
       /\ g_pc = "raised" => g_result.raised # "none"
       /\ (/\ g_pc = "raised"
           /\ validate_config(g_config) = Returned
           /\ compute_indicator(g_config.features) = Returned)
            => g_result.raised = "NotImplementedError"

\* C17 witness: a configuration with both sections, a computed feature and no
\* signal type ended in NotImplementedError without weights.
C17_Witness ==
  /\ g_pc = "raised"
  /\ g_config.sig_type = "None"
  /\ g_computed # {}
  /\ g_validation = NotRun
  /\ g_result = [raised |-> "NotImplementedError", weights |-> <<>>]

\* C25: when compute_indicator fails for a feature (its params are not a
\* mapping: TypeError; its indicator is unknown: AttributeError),
\* generate_targets ends with that same error kind and no weights, and the
\* failing call was the only one made for that feature: the calls are those
\* of the features before it, one per instrument, plus one.
C25_IndicatorFailurePropagates ==
  LET features == g_config.features
      failing == {i \in DOMAIN features :
                    \/ features[i].params # "dict"
                    \/ features[i].indicator \notin KnownIndicators}
  IN (/\ validate_config(g_config) = Returned
      /\ failing # {}
      /\ g_pc \notin {"idle", "validate_config", "features"})
       => LET k == CHOOSE i \in failing : \A j \in failing : i <= j
          IN /\ g_pc = "raised"
             /\ g_result.raised =
                  IF features[k].params # "dict" THEN "TypeError" ELSE "AttributeError"
             /\ g_result.weights = <<>>
             /\ g_calls = NumColumns * (k - 1) + 1
             /\ g_computed = {features[i].id : i \in 1..(k - 1)}
             /\ g_signal = <<>>

\* C25 witness: the second feature, with an unknown indicator and params that
\* are a list, failed with TypeError on its first instrument after the first
\* feature was computed for every instrument.
C25_Witness ==
  /\ g_pc = "raised"
  /\ Len(g_config.features) = 2
  /\ g_config.features[2].params = "list"
  /\ g_config.features[2].indicator = "bogus"
  /\ g_result = [raised |-> "TypeError", weights |-> <<>>]
  /\ g_computed = {"sma3"}
  /\ NumColumns = 2
  /\ g_calls = 3

\* C18: generate_targets fails whenever the ranking method is not rank or the
\* sizing method is not equal_weight: such a run never returns a weight
\* matrix.
C18_UnknownPolicyFails ==
  (/\ g_pc # "idle"
   /\ \/ g_config.ranking_method # "rank"
      \/ g_config.sizing_method # "equal_weight")
    => /\ g_pc # "returned"
       /\ g_result.weights = <<>>

\* C19: a run that ends in a configuration error (a missing features or
\* signal section, an unknown signal type) has made no compute_indicator call
\* and computed no feature before it failed.
C19_ConfigErrorBeforeComputation ==
  (/\ g_pc = "raised"
   /\ \/ validate_config(g_config) # Returned
      \/ g_result.raised = "NotImplementedError")
    => /\ g_calls = 0
       /\ g_computed = {}

(***************************************************************************)
(* The snapshot store.  n_files is the directory data/snapshots: a file is *)
(* its snapshot id, its extension and its content.  A table is the kind of *)
(* its index and its data.  n_calls is the history of the calls: the       *)
(* arguments, the exception raised, the table returned and the directory   *)
(* after the call.                                                         *)
(***************************************************************************)
MaxCalls == 3

SnapshotIds == {"a", "b"}

SaveFormats == {"parquet", "csv", "json"}

\* fmt=None is the auto-detection.
LoadFormats == {"None", "parquet", "csv"}

Tables ==
  {[index |-> "str", data |-> 1], [index |-> "str", data |-> 2],
   [index |-> "datetime", data |-> 1]}

NoTable == [index |-> "", data |-> 0]

\* df.to_parquet keeps the index as it is; df.to_csv(index=True) writes it as
\* text, and read_csv(index_col=0) reads the text back as strings.
Written(df, fmt) == IF fmt = "parquet" THEN df ELSE [df EXCEPT !.index = "str"]

\* path.exists() for SNAPSHOT_DIR / f"{snapshot_id}.{ext}"
Exists(files, id, ext) == \E f \in files : f.id = id /\ f.ext = ext

save_snapshot(files, df, id, fmt) ==
  IF fmt \notin {"parquet", "csv"} THEN [raised |-> "ValueError", files |-> files]
  ELSE IF Exists(files, id, fmt) THEN [raised |-> "FileExistsError", files |-> files]
  ELSE [raised |-> "none",
        files |-> files \cup {[id |-> id, ext |-> fmt, content |-> Written(df, fmt)]}]

\* The first extension, in the order parquet, csv (or the one given), whose
\* file exists.
load_snapshot(files, id, fmt) ==
  LET exts == IF fmt = "None" THEN <<"parquet", "csv">> ELSE <<fmt>>
      found == {i \in DOMAIN exts : Exists(files, id, exts[i])}
  IN IF found = {} THEN [raised |-> "FileNotFoundError", table |-> NoTable]
     ELSE LET first == CHOOSE i \in found : \A j \in found : i <= j
              file == CHOOSE f \in files : f.id = id /\ f.ext = exts[first]
          IN [raised |-> "none", table |-> file.content]

InitSnapshot ==
  /\ ValidateIdle
  /\ SizeIdle
  /\ BacktestIdle
  /\ TargetsIdle
  /\ PipelineIdle
  /\ n_files = {}
  /\ n_calls = <<>>

SaveSnapshot ==
  /\ Len(n_calls) < MaxCalls
  /\ \E df \in Tables : \E id \in SnapshotIds : \E fmt \in SaveFormats :
       LET r == save_snapshot(n_files, df, id, fmt)
       IN /\ n_files' = r.files
          /\ n_calls' = Append(n_calls, [op |-> "save", id |-> id, fmt |-> fmt, df |-> df,
                                         raised |-> r.raised, table |-> NoTable,
                                         files |-> r.files])
  /\ UNCHANGED <<v_vars, s_vars, b_vars, g_vars, p_vars>>

LoadSnapshot ==
  /\ Len(n_calls) < MaxCalls
  /\ \E id \in SnapshotIds : \E fmt \in LoadFormats :
       LET r == load_snapshot(n_files, id, fmt)
       IN n_calls' = Append(n_calls, [op |-> "load", id |-> id, fmt |-> fmt, df |-> NoTable,
                                      raised |-> r.raised, table |-> r.table,
                                      files |-> n_files])
  /\ UNCHANGED n_files
  /\ UNCHANGED <<v_vars, s_vars, b_vars, g_vars, p_vars>>

NextSnapshot == SaveSnapshot \/ LoadSnapshot

SpecSnapshot == InitSnapshot /\ [][NextSnapshot]_vars

\* The call that first saved a snapshot under the id of call i, before call i
\* (0 when there is none).
FirstSave(i) ==
  LET saves == {j \in 1..(i - 1) : /\ n_calls[j].op = "save"
                                   /\ n_calls[j].id = n_calls[i].id
                                   /\ n_calls[j].raised = "none"}
  IN IF saves = {} THEN 0 ELSE CHOOSE j \in saves : \A k \in saves : j <= k

\* The directory before call i.
FilesBefore(i) == IF i = 1 THEN {} ELSE n_calls[i - 1].files

\* C26: once a snapshot was saved under an id, every later save_snapshot under
\* that id, in either format, raises FileExistsError and leaves the directory
\* as it was (a format that is neither raises ValueError and is left aside), and
\* every later load_snapshot of the id with the format left to auto-detection
\* returns the table that was saved first.
C26_SnapshotsImmutable ==
  \A i \in DOMAIN n_calls :
    FirstSave(i) # 0 =>
      /\ (n_calls[i].op = "save" /\ n_calls[i].fmt \in {"parquet", "csv"}) =>
           /\ n_calls[i].raised = "FileExistsError"
           /\ n_calls[i].files = FilesBefore(i)
      /\ (n_calls[i].op = "load" /\ n_calls[i].fmt = "None") =>
           /\ n_calls[i].raised = "none"
           /\ n_calls[i].table = n_calls[FirstSave(i)].df

(***************************************************************************)
(* The full pipeline: a caller holds a StrategyFactory (its config is      *)
(* g_config) and a price matrix, and calls generate_targets and then       *)
(* backtest_from_weights on the weights, Invocations times over.  p_heap   *)
(* is the matrices by identity: p_heap[1] is the caller's price matrix and *)
(* every DataFrame a call constructs and hands out is a new entry.  p_env  *)
(* is what the installed libraries fix for every call alike: the default   *)
(* fill of pct_change and the order that sort_values gives to tied values. *)
(***************************************************************************)
Invocations == 2

\* The indicator frames of a price history of two dates and two tickers.
PipelineFrames ==
  {<<<<Num(1), Num(2)>>, <<Num(2), Num(1)>>>>,
   <<<<Num(2), Num(1)>>, <<Num(1), Num(1)>>>>,
   <<<<NaN, Num(1)>>, <<Num(0), Num(0)>>>>}

PipelinePrices ==
  {<<<<Num(1), Num(1)>>, <<Num(2), Num(1)>>>>,
   <<<<Num(2), Num(1)>>, <<Num(1), Num(2)>>>>,
   <<<<Num(1), Num(2)>>, <<Num(1), NaN>>>>}

PipelineConfigs ==
  [keys : {{"features", "signal"}, {"features"}},
   features : {<<Feature("sma3", "sma"), Feature("sma5", "sma")>>,
               <<Feature("sma3", "sma"), Feature("sma5", "bogus")>>},
   sig_type : {"boolean_expression", "threshold"},
   expression : {Expression(Compare(Name("sma3"), "Gt", Name("sma5"))),
                 Expression(Compare(Name("sma3"), "NotEq", Name("sma5"))),
                 Expression(Constant("1"))},
   top_n : TargetTopNs,
   ranking_method : {"rank"}, sizing_method : {"equal_weight"}]

TieOrders == {"first", "last"}

\* valid.sort_values(ascending=False) in one installation: tied values come
\* in column order, or in the reverse of it, at every call alike.
Ranked(row, ties) ==
  CHOOSE o \in sort_values(row) :
    \A i, j \in DOMAIN o :
      (i < j /\ row[o[i]] = row[o[j]]) =>
        IF ties = "first" THEN o[i] < o[j] ELSE o[i] > o[j]

\* Mutant: the call consumes top_n from the factory's configuration.
config_after_Consumed(config) == [config EXCEPT !.top_n = <<>>]

\* self.config after generate_targets: the method only reads it (.get).
config_after(config) == config

\* generate_targets as a whole: the first statement that raises ends it.
generate_targets(config, ties) ==
  LET failed(r) == [raised |-> r.raised, weights |-> <<>>]
      names == Computed(config.features)
  IN IF validate_config(config) # Returned THEN failed(validate_config(config))
     ELSE IF compute_indicator(config.features) # Returned
       THEN failed(compute_indicator(config.features))
     ELSE IF check_signal_type(config.sig_type) # Returned
       THEN failed(check_signal_type(config.sig_type))
     ELSE IF safe_compile_boolean_expression(config.expression, names) # Returned
       THEN failed(safe_compile_boolean_expression(config.expression, names))
     ELSE IF evaluate(config.expression, names) # Returned
       THEN failed(evaluate(config.expression, names))
     ELSE LET signal == astype_float(config.expression, names)
          IN [raised |-> "none",
              weights |-> [d \in DOMAIN signal |->
                             SizeRow(signal[d], config.top_n,
                                     Ranked(signal[d], ties))]]

\* backtest_from_weights as a whole, with plot=False.
backtest_from_weights(price, weights, execution, cost, fill) ==
  IF ~valid_execution(execution) THEN [NoResult EXCEPT !.raised = "ValueError"]
  ELSE LET fw == full_weights(price, weights, SameColumns(Len(price[1])))
           to == turnover(fw)
           gr == gross(fw, masked_returns(aligned_returns(price, execution, fill)))
           net == net_returns(gr, tx_cost(to, cost))
       IN [raised |-> "none", net |-> net, full_weights |-> fw,
           metrics |-> metrics(net, to)]

\* weights = pd.DataFrame(0.0, ...): the frame that weights.at[dt, tick] = w
\* writes into is a new one (price_df is a copy that is only read).
sized_frame(price_id, fresh) == fresh

\* Mutant: the realized weights are written into the caller's weights.
updated_frame_Caller(weights_id, fresh) == weights_id

\* full_weights = pd.DataFrame(0.0, ...): the frame that full_weights.update(w)
\* writes into is a new one.
updated_frame(weights_id, fresh) == fresh

\* The heap after matrix m was written into object id.
Store(heap, id, m) ==
  IF id \in DOMAIN heap THEN [heap EXCEPT ![id] = m] ELSE Append(heap, m)

NoRun ==
  [stage |-> "targets", targets_raised |-> "none", weights_id |-> 0, weights |-> <<>>,
   backtest |-> NoResult, realized_id |-> 0]

\* The caller's step after a run ended.
NextCall(runs) == IF Len(runs) < Invocations THEN "targets" ELSE "done"

InitPipeline ==
  /\ ValidateIdle
  /\ SizeIdle
  /\ BacktestIdle
  /\ SnapshotIdle
  /\ g_pc = "idle"
  /\ g_config \in PipelineConfigs
  /\ g_ind \in [FeatureIds -> PipelineFrames]
  /\ g_computed = {}
  /\ g_calls = 0
  /\ g_validation = NotRun
  /\ g_evals = 0
  /\ g_signal = <<>>
  /\ g_result = NoTargets
  /\ p_pc = "targets"
  /\ p_heap \in {<<price>> : price \in PipelinePrices}
  /\ p_env \in [fill : FillMethods, ties : TieOrders]
  /\ p_call \in [execution : ExecutionModes, cost : {Frac(1, 4)}]
  /\ p_runs = <<>>

CallGenerateTargets ==
  /\ p_pc = "targets"
  /\ LET out == generate_targets(g_config, p_env.ties)
         id == sized_frame(1, Len(p_heap) + 1)
     IN IF out.raised = "none"
          THEN /\ p_heap' = Store(p_heap, id, out.weights)
               /\ p_runs' = Append(p_runs, [NoRun EXCEPT !.weights_id = id,
                                                         !.weights = out.weights])
               /\ p_pc' = "backtest"
          ELSE /\ p_heap' = p_heap
               /\ p_runs' = Append(p_runs, [NoRun EXCEPT !.stage = "complete",
                                                         !.targets_raised = out.raised])
               /\ p_pc' = NextCall(p_runs')
  /\ g_config' = config_after(g_config)
  /\ UNCHANGED <<p_env, p_call>>
  /\ UNCHANGED <<g_pc, g_ind, g_computed, g_calls, g_validation, g_evals, g_signal,
                 g_result>>
  /\ UNCHANGED <<v_vars, s_vars, b_vars, n_vars>>

CallBacktest ==
  /\ p_pc = "backtest"
  /\ LET run == p_runs[Len(p_runs)]
         out == backtest_from_weights(p_heap[1], p_heap[run.weights_id],
                                      p_call.execution, p_call.cost, p_env.fill)
         id == updated_frame(run.weights_id, Len(p_heap) + 1)
     IN /\ p_heap' = IF out.raised = "none" THEN Store(p_heap, id, out.full_weights)
                      ELSE p_heap
        /\ p_runs' = [p_runs EXCEPT ![Len(p_runs)] =
                        [run EXCEPT !.stage = "complete", !.backtest = out,
                                    !.realized_id = IF out.raised = "none" THEN id ELSE 0]]
  /\ p_pc' = NextCall(p_runs)
  /\ UNCHANGED <<p_env, p_call>>
  /\ UNCHANGED <<v_vars, s_vars, b_vars, g_vars, n_vars>>

NextPipeline == CallGenerateTargets \/ CallBacktest

SpecPipeline == InitPipeline /\ [][NextPipeline]_vars

InputsKept ==
  p_pc \in {"targets", "backtest"} =>
    /\ g_config' = g_config
    /\ \A id \in DOMAIN p_heap : p_heap'[id] = p_heap[id]
    /\ (p_pc = "targets" /\ p_runs'[Len(p_runs')].targets_raised = "none")
         => p_runs'[Len(p_runs')].weights_id \notin DOMAIN p_heap
    /\ (p_pc = "backtest" /\ p_runs'[Len(p_runs')].backtest.raised = "none")
         => p_runs'[Len(p_runs')].realized_id \notin DOMAIN p_heap

\* C24: a call of generate_targets or backtest_from_weights, returning or
\* raising, leaves the configuration and every matrix the caller holds (the
\* price matrix, the weight matrices) with the values they had, and the
\* matrix it returns is a new one, not one the caller already held.
C24_InputsUnchanged == [][InputsKept]_vars

\* C24 witness: both calls of an invocation returned; the price matrix, the
\* weights and the realized weights are three matrices.
C24_Witness ==
  /\ p_pc = "done"
  /\ p_runs[1].backtest.raised = "none"
  /\ p_runs[1].weights_id = 2
  /\ p_runs[1].realized_id = 3
  /\ p_heap[1] \in PipelinePrices
  /\ p_heap[2] = p_runs[1].weights
  /\ p_heap[2] # p_heap[1]
====
